---- MODULE Spec2Model ----
(* The cancellation tree of package context (src/unnamed/part_000):      *)
(* cancelCtx / timerCtx / valueCtx nodes under Background, derived and    *)
(* canceled by concurrently running goroutines.  Every step is one       *)
(* critical section (or one atomic load) of the source.                  *)
EXTENDS Integers, Sequences, FiniteSets, TLC

(* ---------------------------- bounds --------------------------------- *)
\* number of contexts that may be derived from Background
MaxNodes == 3
\* the clock runs from 0 to MaxTime
MaxTime == 2

\* at most MaxTimers contexts carry a timer of their own
MaxTimers == 1

\* at most MaxValues contexts are value-chain nodes
MaxValues == 3
\* the number of withoutCancelCtx contexts
MaxWithout == 1

\* the goroutines; which of two idle goroutines makes a call is immaterial,
\* so the one with the least number does
Threads == {"g1", "g2"}

\* the goroutine started on behalf of child c by propagateCancel (line 552)
\* or by the AfterFunc method of an afterFuncer parent (line 540)
WaiterNames == <<"w1", "w2", "w3", "w4", "w5", "w6">>
W(c) == WaiterNames[c]
Waiters == {W(c) : c \in 1..MaxNodes}
Goroutines == Threads \cup Waiters

(* ---------------------------- values --------------------------------- *)
Background == 0
Nodes == 0..MaxNodes
NoNode == -1
NoDeadline == -1
Free == "free"

\* the keys and values of WithValue
Keys == {"k1", "k2"}
Vals == {"v1", "v2"}
NoKey == "nokey"
Absent == "absent"

Nil == "nil"
Canceled == "Canceled"
DeadlineExceeded == "DeadlineExceeded"
UserCauses == {"cause1", "cause2"}

VARIABLES
    kind,       \* dynamic type of each context; "none" = not allocated
    Context,    \* the embedded parent Context of a node
    err,        \* cancelCtx.err
    cause,      \* cancelCtx.cause
    done,       \* cancelCtx.done: "nil", "open", "closed", "closedchan"
    children,   \* cancelCtx.children
    mu,         \* cancelCtx.mu: Free or the goroutine that holds it
    timer,      \* timerCtx.timer: "nil", "armed", "fired"
    deadline,   \* timerCtx.deadline
    dcause,     \* the cause captured by the closures of WithDeadlineCause
    handle,     \* the cancel function returned to the caller; "none" until returned
    now,        \* the clock
    pc,         \* where each goroutine is in its current call
    op,         \* the call a goroutine is running
    stack,      \* the nested cancel calls of a goroutine, innermost first
    how,        \* history: the kind of call that first canceled the node
    arg,        \* history: the cause that call was given
    asked,      \* history: the deadline a deadline derivation was asked for
    once,       \* afterFuncCtx.once: TRUE once it has been used
    started,    \* history: how many times f of an afterFuncCtx was started
    stopTrue,   \* history: how many calls of stop returned true
    key,        \* valueCtx.key
    val,        \* valueCtx.val
    goroutines, \* the package counter of goroutines ever created (line 551)
    funcs,      \* per afterFuncer context: the children whose func it holds
    stopCtx     \* the Context of the node is a stopCtx around its parent

nodeVars == <<kind, Context, err, cause, done, children, mu, timer, deadline, dcause, handle,
              how, arg, asked>>
\* the state of AfterFunc
afterVars == <<once, started, stopTrue>>

\* the state of WithValue
valueVars == <<key, val>>

\* the state of the registrations with a context of another package
waitVars == <<goroutines, funcs, stopCtx>>

\* what cancellation and the derivations of cancelable contexts leave alone
restVars == <<afterVars, valueVars, waitVars>>

vars == <<kind, Context, err, cause, done, children, mu, timer, deadline, dcause, handle,
          how, arg, asked, now, pc, op, stack, restVars>>

IsCanceler(n) == kind[n] \in {"cancelCtx", "timerCtx", "afterFuncCtx"}

\* Context implementations of other packages: a struct that embeds a
\* Context and has a Done channel and an Err of its own ("doneCtx"), and
\* one that has an AfterFunc method as well ("afterFuncerCtx").  Value is
\* the embedded Context's.
CustomKinds == {"doneCtx", "afterFuncerCtx"}
IsCustom(n) == kind[n] \in CustomKinds

\* the caller holds context n: its derivation has returned (AfterFunc
\* returns a stop function only)
Published(n) == n = Background \/ (n \in Nodes /\ handle[n] \notin {"none", "stop"})

Closed(d) == d \in {"closed", "closedchan"}

NoOp == [name |-> "none", c |-> NoNode, handle |-> "none", snap |-> {}, live |-> {},
         past |-> FALSE, won |-> FALSE]

(* ------------------------- pure lookups ------------------------------ *)
\* a lookup of &cancelCtxKey that walks through a withoutCancelCtx
RECURSIVE valueThrough(_)
valueThrough(c) ==
    IF c = NoNode \/ kind[c] = "backgroundCtx" THEN NoNode
    ELSE IF IsCanceler(c) THEN c
    ELSE valueThrough(Context[c])

\* value(c, &cancelCtxKey): the innermost enclosing *cancelCtx, or NoNode;
\* a withoutCancelCtx ends the walk (line 845)
RECURSIVE value(_)
value(c) ==
    IF c = NoNode \/ kind[c] \in {"backgroundCtx", "withoutCancelCtx"} THEN NoNode
    ELSE IF IsCanceler(c) THEN c
    ELSE value(Context[c])

\* c.Done(): the channel is identified by the node that owns it
RECURSIVE DoneOwner(_)
DoneOwner(c) ==
    IF c = NoNode \/ kind[c] \in {"backgroundCtx", "withoutCancelCtx"} THEN NoNode
    ELSE IF IsCanceler(c) \/ IsCustom(c) THEN c
    ELSE DoneOwner(Context[c])

\* c.Err(), read under the owner's lock
Err(c) == IF DoneOwner(c) = NoNode THEN Nil ELSE err[DoneOwner(c)]

Cause(c) == IF value(c) # NoNode THEN cause[value(c)] ELSE Err(c)

\* a lookup that returns the value of the outermost context with the key
RECURSIVE ValueOutermost(_, _)
ValueOutermost(c, k) ==
    IF c = NoNode \/ kind[c] = "backgroundCtx" THEN Absent
    ELSE LET above == ValueOutermost(Context[c], k) IN
         IF kind[c] = "valueCtx" /\ key[c] = k /\ above = Absent THEN val[c] ELSE above

\* valueCtx.Value and value(c, key) for a key of the caller's: lines 820..861
RECURSIVE Value(_, _)
Value(c, k) ==
    IF c = NoNode \/ kind[c] = "backgroundCtx" THEN Absent
    ELSE IF kind[c] = "valueCtx" /\ key[c] = k THEN val[c]
    ELSE Value(Context[c], k)

RECURSIVE Deadline(_)
Deadline(c) ==
    IF c = NoNode \/ kind[c] \in {"backgroundCtx", "withoutCancelCtx"} THEN NoDeadline
    ELSE IF kind[c] = "timerCtx" THEN deadline[c]
    ELSE Deadline(Context[c])

\* a parentCancelCtx that does not compare the channels
donesAlike(parent, p) == FALSE

\* line 404: pdone != done
donesDiffer(parent, p) == DoneOwner(parent) # p

\* parentCancelCtx(parent): the *cancelCtx to register with, or NoNode
parentCancelCtx(parent) ==
    LET p == value(parent) IN
    IF p = NoNode THEN NoNode
    ELSE IF donesDiffer(parent, p) THEN NoNode
    ELSE IF done[p] = "closedchan" THEN NoNode
    ELSE p

(* --------------------------- Init ------------------------------------ *)
Init ==
    /\ kind = [n \in Nodes |-> IF n = Background THEN "backgroundCtx" ELSE "none"]
    /\ Context = [n \in Nodes |-> NoNode]
    /\ err = [n \in Nodes |-> Nil]
    /\ cause = [n \in Nodes |-> Nil]
    /\ done = [n \in Nodes |-> "nil"]
    /\ children = [n \in Nodes |-> {}]
    /\ mu = [n \in Nodes |-> Free]
    /\ timer = [n \in Nodes |-> "nil"]
    /\ deadline = [n \in Nodes |-> NoDeadline]
    /\ dcause = [n \in Nodes |-> Nil]
    /\ handle = [n \in Nodes |-> "none"]
    /\ how = [n \in Nodes |-> "none"]
    /\ arg = [n \in Nodes |-> Nil]
    /\ asked = [n \in Nodes |-> NoDeadline]
    /\ once = [n \in Nodes |-> FALSE]
    /\ started = [n \in Nodes |-> 0]
    /\ stopTrue = [n \in Nodes |-> 0]
    /\ key = [n \in Nodes |-> NoKey]
    /\ val = [n \in Nodes |-> Absent]
    /\ now = 0
    /\ goroutines = 0
    /\ funcs = [n \in Nodes |-> {}]
    /\ stopCtx = [n \in Nodes |-> FALSE]
    /\ pc = [t \in Goroutines |-> "idle"]
    /\ op = [t \in Goroutines |-> NoOp]
    /\ stack = [t \in Goroutines |-> <<>>]

Idle(t) == pc[t] = "idle" /\ (t = "g2" => pc["g1"] # "idle")

Fresh == CHOOSE n \in Nodes : kind[n] = "none" /\ \A m \in Nodes : kind[m] = "none" => n <= m
HasFresh == \E n \in Nodes : kind[n] = "none"

Frame(c, rfp, e, cs, via) ==
    [c |-> c, removeFromParent |-> rfp, err |-> e, cause |-> cs, at |-> "lock",
     todo |-> {}, via |-> via]

\* history: the nodes registered below c, through the children sets
RECURSIVE Registered(_)
Registered(c) == children[c] \cup UNION {Registered(k) : k \in children[c]}

(* ------------------------- goroutine steps --------------------------- *)
Top(t) == Head(stack[t])
Running(t) == stack[t] # <<>>

\* One step of goroutine t: it goes on at q with the nested cancel calls st
\* and the call record o.  A call with nothing left to run (q = "ret" and
\* no cancel call pending) returns to its caller: the goroutine is idle
\* again and a derivation hands out the cancel function of the new context.
Step(t, q, st, o) ==
    LET returns == q = "ret" /\ st = <<>> IN
    /\ pc' = [pc EXCEPT ![t] = IF returns THEN "idle" ELSE q]
    /\ op' = [op EXCEPT ![t] = IF returns THEN NoOp ELSE o]
    /\ stack' = [stack EXCEPT ![t] = st]
    /\ handle' = IF returns /\ o.handle # "none"
                 THEN [handle EXCEPT ![o.c] = o.handle]
                 ELSE handle

(* ------------------ cancelCtx.cancel / timerCtx.cancel --------------- *)
\* a cancel that keeps a nil cause as it is
causeKeptNil(e, cs) == cs

\* line 587: a nil cause defaults to the error
causeOrErr(e, cs) == IF cs = Nil THEN e ELSE cs

\* a cancel that never finds the context canceled
neverCanceled(c) == FALSE

\* line 593: the first cancel wins
alreadyCanceled(c) == err[c] # Nil

\* a cancel that forgets its children without canceling them
noChildren(c) == {}

\* line 610: the children the cascade visits
cascadeChildren(c) == children[c]

\* a cascade that does not hand the cause down
childFrameNoCause(child, f) == Frame(child, FALSE, f.err, Nil, "parent")

\* a cascade that cancels every child with Canceled
childFrameCanceled(child, f) == Frame(child, FALSE, Canceled, f.cause, "parent")

\* a cascade that has every child remove itself from its parent
childFrameRemove(child, f) == Frame(child, TRUE, f.err, f.cause, "parent")

\* line 612: what a child is canceled with
childFrame(child, f) == Frame(child, FALSE, f.err, f.cause, "parent")

\* a cancel that leaves the timer as it is
timerKept(c) == timer

\* timerCtx.cancel lines 736..739: Stop and forget the timer
stopTimer(c) == [timer EXCEPT ![c] = "nil"]

\* a cancel that never detaches the context from its parent
afterCancelNoRemove(f, already) ==
    IF kind[f.c] = "timerCtx" THEN "stop"
    ELSE IF kind[f.c] = "afterFuncCtx" THEN "once"
    ELSE "return"

\* Where a cancel call continues once cancelCtx.cancel has run on f.c:
\* cancelCtx.cancel returns at once when already canceled (line 595) and
\* calls removeChild otherwise (line 618); timerCtx.cancel goes on to
\* removeChild (line 731) and to its timer (line 735) in both cases, and
\* afterFuncCtx.cancel to removeChild (line 363) and to its once (line 366).
afterCancelCtx(f, already) ==
    IF kind[f.c] = "timerCtx"
    THEN IF f.removeFromParent THEN "remove" ELSE "stop"
    ELSE IF kind[f.c] = "afterFuncCtx"
    THEN IF f.removeFromParent THEN "remove" ELSE "once"
    ELSE IF f.removeFromParent /\ ~already THEN "remove" ELSE "return"

\* the goroutine's stack once its innermost frame is at `at`
Continue(t, f, at) ==
    IF at = "return" THEN Tail(stack[t])
    ELSE <<[f EXCEPT !.at = at, !.todo = {}]>> \o Tail(stack[t])

\* history: the call record of a goroutine whose outermost cancel takes
\* effect on c remembers that it did, the nodes registered below c at that
\* moment, and which of them were not canceled yet
Snapshot(t, c) ==
    IF Len(stack[t]) = 1
    THEN [op[t] EXCEPT !.snap = Registered(c),
                       !.live = {n \in Registered(c) : err[n] = Nil},
                       !.won = TRUE]
    ELSE op[t]

\* lines 591..608 (and 609..616 when there is no child to visit)
cancelLock(t) ==
    /\ Running(t)
    /\ Top(t).at = "lock"
    /\ LET f == Top(t)
           c == f.c
       IN
       /\ mu[c] = Free
       /\ IF alreadyCanceled(c)
          THEN /\ Step(t, pc[t], Continue(t, f, afterCancelCtx(f, TRUE)), op[t])
               /\ UNCHANGED <<err, cause, done, mu, how, arg, children>>
          ELSE /\ err' = [err EXCEPT ![c] = f.err]
               /\ cause' = [cause EXCEPT ![c] = causeOrErr(f.err, f.cause)]
               /\ done' = [done EXCEPT ![c] = IF done[c] = "nil" THEN "closedchan" ELSE "closed"]
               /\ how' = [how EXCEPT ![c] = IF @ = "none" THEN f.via ELSE @]
               /\ arg' = [arg EXCEPT ![c] = IF how[c] = "none" THEN f.cause ELSE @]
               /\ IF cascadeChildren(c) = {}
                  THEN /\ mu' = mu
                       /\ children' = [children EXCEPT ![c] = {}]
                       /\ Step(t, pc[t], Continue(t, f, afterCancelCtx(f, FALSE)),
                               Snapshot(t, c))
                  ELSE /\ mu' = [mu EXCEPT ![c] = t]
                       /\ children' = children
                       /\ Step(t, pc[t],
                               <<[f EXCEPT !.at = "children", !.todo = cascadeChildren(c)]>>
                               \o Tail(stack[t]),
                               Snapshot(t, c))
    /\ UNCHANGED <<kind, Context, timer, deadline, dcause, asked, now>>
    /\ UNCHANGED restVars

\* lines 610..613: one iteration of the range over c.children
cancelChild(t) ==
    /\ Running(t)
    /\ Top(t).at = "children"
    /\ Top(t).todo # {}
    /\ \E child \in Top(t).todo :
          Step(t, pc[t],
               <<childFrame(child, Top(t)), [Top(t) EXCEPT !.todo = @ \ {child}]>>
               \o Tail(stack[t]),
               op[t])
    /\ UNCHANGED <<kind, Context, err, cause, done, children, mu, timer, deadline, dcause, how, arg,
                   asked, now>>
    /\ UNCHANGED restVars

\* lines 615..616
cancelUnlock(t) ==
    /\ Running(t)
    /\ Top(t).at = "children"
    /\ Top(t).todo = {}
    /\ children' = [children EXCEPT ![Top(t).c] = {}]
    /\ mu' = [mu EXCEPT ![Top(t).c] = Free]
    /\ Step(t, pc[t], Continue(t, Top(t), afterCancelCtx(Top(t), FALSE)), op[t])
    /\ UNCHANGED <<kind, Context, err, cause, done, timer, deadline, dcause, how, arg, asked, now>>
    /\ UNCHANGED restVars

\* what follows removeChild: lines 735, 366, 620
afterRemove(c) ==
    IF kind[c] = "timerCtx" THEN "stop"
    ELSE IF kind[c] = "afterFuncCtx" THEN "once"
    ELSE "return"

\* a removeChild that empties the parent's children
deleteAll(p, child) == [children EXCEPT ![p] = {}]

\* line 427: delete(p.children, child)
delete(p, child) == [children EXCEPT ![p] = @ \ {child}]

\* removeChild, lines 411..429; the stop function of a stopCtx takes the
\* child's func back from the afterFuncer
removeChild(t) ==
    /\ Running(t)
    /\ Top(t).at = "remove"
    /\ LET c == Top(t).c
           p == parentCancelCtx(Context[c])
       IN
       /\ IF stopCtx[c]
          THEN /\ funcs' = [funcs EXCEPT ![Context[c]] = @ \ {c}]
               /\ children' = children
          ELSE IF p = NoNode
          THEN UNCHANGED <<children, funcs>>
          ELSE /\ mu[p] = Free
               /\ children' = delete(p, c)
               /\ funcs' = funcs
       /\ Step(t, pc[t], Continue(t, Top(t), afterRemove(c)), op[t])
    /\ UNCHANGED <<kind, Context, err, cause, done, mu, timer, deadline, dcause, how, arg, asked, now>>
    /\ UNCHANGED <<afterVars, valueVars, goroutines, stopCtx>>

\* timerCtx.cancel, lines 735..740
timerStop(t) ==
    /\ Running(t)
    /\ Top(t).at = "stop"
    /\ mu[Top(t).c] = Free
    /\ timer' = stopTimer(Top(t).c)
    /\ Step(t, pc[t], Tail(stack[t]), op[t])
    /\ UNCHANGED <<kind, Context, err, cause, done, children, mu, deadline, dcause, how, arg, asked, now>>
    /\ UNCHANGED restVars

(* ----------------------------- AfterFunc ----------------------------- *)
\* a once that lets every caller in
onceNever(a) == FALSE

\* sync.Once: the function given to Do is not called again
onceDone(a) == once[a]

\* afterFuncCtx.cancel, lines 366..368: a.once.Do(func() { go a.f() })
afterFuncOnce(t) ==
    /\ Running(t)
    /\ Top(t).at = "once"
    /\ LET a == Top(t).c IN
       /\ once' = [once EXCEPT ![a] = TRUE]
       /\ started' = [started EXCEPT ![a] = IF onceDone(a) THEN @ ELSE @ + 1]
    /\ Step(t, pc[t], Tail(stack[t]), op[t])
    /\ UNCHANGED <<kind, Context, err, cause, done, children, mu, timer, deadline, dcause,
                   how, arg, asked, now, stopTrue, valueVars, waitVars>>

(* ------------------------- the callers ------------------------------- *)
\* The causes a caller may supply.  Causes are compared by identity only,
\* so a caller takes "cause2" only when "cause1" is already around.
InUse(cs) ==
    \/ \E n \in Nodes : cause[n] = cs \/ dcause[n] = cs
    \/ \E t \in Goroutines : \E i \in 1..Len(stack[t]) : stack[t][i].cause = cs

Causes == {cs \in {Nil} \cup UserCauses : cs = "cause2" => InUse("cause1")}

\* a CancelFunc that hands on the cause the derivation was given
handleSupplied(n) == IF handle[n] = "CancelCauseFunc" THEN Causes ELSE {dcause[n]}

\* the causes a caller may hand to the cancel function of n
handleCauses(n) == IF handle[n] = "CancelCauseFunc" THEN Causes ELSE {Nil}

\* a cause-setting cancel that uses the cause as the error
causeAsErr(cs) == IF cs = Nil THEN Canceled ELSE cs

\* line 279: the error of a cause-setting cancel
cancelCauseErr(cs) == Canceled

\* lines 249, 279, 695, 706: the returned closures
callCancel(t, n, cs) ==
    /\ Idle(t)
    /\ handle[n] \in {"CancelFunc", "CancelCauseFunc", "CancelFuncNoRemove"}
    /\ cs \in handleCauses(n)
    /\ Step(t, "ret",
            <<Frame(n, handle[n] # "CancelFuncNoRemove", cancelCauseErr(cs), cs, "handle")>>,
            [NoOp EXCEPT !.name = "cancel", !.c = n])
    /\ UNCHANGED <<kind, Context, err, cause, done, children, mu, timer, deadline, dcause, how, arg,
                   asked, now>>
    /\ UNCHANGED restVars

\* lines 336..346: the stop function AfterFunc returns
callStop(t, a) ==
    /\ Idle(t)
    /\ handle[a] = "stop"
    /\ IF onceDone(a)
       THEN UNCHANGED <<pc, op, stack, handle, once, stopTrue>>
       ELSE /\ once' = [once EXCEPT ![a] = TRUE]
            /\ stopTrue' = [stopTrue EXCEPT ![a] = @ + 1]
            /\ Step(t, "ret", <<Frame(a, TRUE, Canceled, Nil, "handle")>>,
                    [NoOp EXCEPT !.name = "stop", !.c = a])
    /\ UNCHANGED <<kind, Context, err, cause, done, children, mu, timer, deadline, dcause,
                   how, arg, asked, now, started, valueVars, waitVars>>

\* the runtime runs the function of time.AfterFunc (lines 702..704) in its
\* own goroutine once the duration has elapsed
timerFunc(t, n) ==
    /\ Idle(t)
    /\ timer[n] = "armed"
    /\ now >= deadline[n]
    /\ timer' = [timer EXCEPT ![n] = "fired"]
    /\ Step(t, "ret", <<Frame(n, TRUE, DeadlineExceeded, dcause[n], "timer")>>,
            [NoOp EXCEPT !.name = "timerFunc", !.c = n])
    /\ UNCHANGED <<kind, Context, err, cause, done, children, mu, deadline, dcause, how, arg, asked, now>>
    /\ UNCHANGED restVars

\* Time passes.  The clock is read by time.Until (line 691) and by the
\* runtime's timers only, so a tick is taken when one of them can tell:
\* a deadline not yet reached is being derived, or has its timer armed.
Awaited(n) ==
    /\ kind[n] = "timerCtx"
    /\ now < deadline[n]
    /\ \/ timer[n] = "armed"
       \/ \E t \in Threads : op[t].c = n /\ op[t].name = "WithDeadlineCause"

Tick ==
    /\ now < MaxTime
    /\ \E n \in Nodes : Awaited(n)
    /\ now' = now + 1
    /\ UNCHANGED <<nodeVars, pc, op, stack>>
    /\ UNCHANGED restVars

(* --------------------------- derivations ----------------------------- *)
\* lines 778..789
WithValue(t, parent, k, v) ==
    /\ Idle(t)
    /\ HasFresh
    /\ Published(parent)
    /\ Cardinality({n \in Nodes : kind[n] = "valueCtx"}) < MaxValues
    /\ kind' = [kind EXCEPT ![Fresh] = "valueCtx"]
    /\ Context' = [Context EXCEPT ![Fresh] = parent]
    /\ handle' = [handle EXCEPT ![Fresh] = "valueCtx"]
    /\ key' = [key EXCEPT ![Fresh] = k]
    /\ val' = [val EXCEPT ![Fresh] = v]
    /\ UNCHANGED <<err, cause, done, children, mu, timer, deadline, dcause, how, arg,
                   asked, now, pc, op, stack, afterVars, waitVars>>

\* a deadline that counts as passed only once it is behind the clock
deadlineBehind(d) == d - now < 0

\* line 693: the deadline has already passed
deadlinePassed(d) == d - now <= 0

\* lines 282..292 with line 503; name tells WithCancel from WithCancelCause,
\* and d is the deadline asked for when WithDeadlineCause makes the call
\* (line 682), NoDeadline otherwise
withCancel(t, parent, name, d) ==
    /\ Idle(t)
    /\ HasFresh
    /\ Published(parent)
    /\ kind' = [kind EXCEPT ![Fresh] = "cancelCtx"]
    /\ Context' = [Context EXCEPT ![Fresh] = parent]
    /\ Step(t, "Done", <<>>,
            [NoOp EXCEPT !.name = name, !.c = Fresh,
                         !.handle = IF name = "WithCancelCause" THEN "CancelCauseFunc"
                                    ELSE "CancelFunc",
                         !.past = d # NoDeadline /\ d <= now])
    /\ asked' = [asked EXCEPT ![Fresh] = d]
    /\ UNCHANGED <<err, cause, done, children, mu, timer, deadline, dcause, how, arg, now>>
    /\ UNCHANGED restVars

\* lines 626..631
WithoutCancel(t, parent) ==
    /\ Idle(t)
    /\ HasFresh
    /\ Published(parent)
    /\ Cardinality({n \in Nodes : kind[n] = "withoutCancelCtx"}) < MaxWithout
    /\ kind' = [kind EXCEPT ![Fresh] = "withoutCancelCtx"]
    /\ Context' = [Context EXCEPT ![Fresh] = parent]
    /\ handle' = [handle EXCEPT ![Fresh] = "withoutCancelCtx"]
    /\ UNCHANGED <<err, cause, done, children, mu, timer, deadline, dcause, how, arg,
                   asked, now, pc, op, stack, restVars>>

\* lines 333..337
AfterFunc(t, parent) ==
    /\ Idle(t)
    /\ HasFresh
    /\ Published(parent)
    /\ kind' = [kind EXCEPT ![Fresh] = "afterFuncCtx"]
    /\ Context' = [Context EXCEPT ![Fresh] = parent]
    /\ Step(t, "Done", <<>>, [NoOp EXCEPT !.name = "AfterFunc", !.c = Fresh, !.handle = "stop"])
    /\ UNCHANGED <<err, cause, done, children, mu, timer, deadline, dcause, how, arg, asked,
                   now, restVars>>

\* lines 245..250
WithCancel(t, parent) == withCancel(t, parent, "WithCancel", NoDeadline)

\* lines 277..280
WithCancelCause(t, parent) == withCancel(t, parent, "WithCancelCause", NoDeadline)

\* a parent's deadline that counts as sooner when it is the same
parentNotLater(parent, d) == Deadline(parent) # NoDeadline /\ Deadline(parent) <= d

\* line 680: the parent's deadline is already sooner than d
parentIsSooner(parent, d) == Deadline(parent) # NoDeadline /\ Deadline(parent) < d

\* lines 674..689
WithDeadlineCause(t, parent, d, cs) ==
    /\ Idle(t)
    /\ HasFresh
    /\ Published(parent)
    /\ IF parentIsSooner(parent, d)
       THEN withCancel(t, parent, "WithCancel", d)
       ELSE /\ Cardinality({n \in Nodes : kind[n] = "timerCtx"}) < MaxTimers
            /\ cs \in Causes
            /\ kind' = [kind EXCEPT ![Fresh] = "timerCtx"]
            /\ Context' = [Context EXCEPT ![Fresh] = parent]
            /\ deadline' = [deadline EXCEPT ![Fresh] = d]
            /\ dcause' = [dcause EXCEPT ![Fresh] = cs]
            /\ Step(t, "Done", <<>>,
                    [NoOp EXCEPT !.name = "WithDeadlineCause", !.c = Fresh,
                                 !.handle = "CancelFunc", !.past = d <= now])
            /\ asked' = [asked EXCEPT ![Fresh] = d]
            /\ UNCHANGED <<err, cause, done, children, mu, timer, how, arg, now>>
    /\ UNCHANGED restVars

\* where a derivation continues after propagateCancel
afterPropagate(name) == IF name = "WithDeadlineCause" THEN "Until" ELSE "ret"

\* parent.Err() and Cause(parent) can take their locks: c.mu of the
\* cancelCtx that owns the channel (line 493) and of the one that
\* Value(&cancelCtxKey) finds (line 303)
ErrCauseFree(parent) ==
    /\ DoneOwner(parent) # NoNode => mu[DoneOwner(parent)] = Free
    /\ value(parent) # NoNode => mu[value(parent)] = Free

\* a propagateCancel that hands the child its own error and cause
ownFrame(c) == Frame(c, FALSE, Err(c), Cause(c), "parent")

\* line 516: the child is canceled with the parent's error and cause
parentFrame(c) == Frame(c, FALSE, Err(Context[c]), Cause(Context[c]), "parent")

\* lines 511..519: the select on the parent's channel.  parent.Err() and
\* Cause(parent) of line 516 take the owner's lock.
selectDone(t, p) ==
    IF Closed(done[p])
    THEN /\ ErrCauseFree(Context[op[t].c])
         /\ Step(t, afterPropagate(op[t].name), <<parentFrame(op[t].c)>>, op[t])
    ELSE Step(t, "parent", <<>>, op[t])

\* lines 505..509: parent.Done(), which creates the channel lazily under
\* the owner's lock (lines 481..487); when the channel exists the select of
\* line 511 follows in the same step
propagateDone(t) ==
    /\ pc[t] = "Done"
    /\ LET p == DoneOwner(Context[op[t].c]) IN
       IF p = NoNode
       THEN /\ Step(t, afterPropagate(op[t].name), <<>>, op[t])
            /\ done' = done
       ELSE IF done[p] = "nil"
       THEN /\ mu[p] = Free
            /\ done' = [done EXCEPT ![p] = "open"]
            /\ Step(t, "select", <<>>, op[t])
       ELSE /\ selectDone(t, p)
            /\ done' = done
    /\ UNCHANGED <<kind, Context, err, cause, children, mu, timer, deadline, dcause, how, arg, asked, now>>
    /\ UNCHANGED restVars

\* lines 511..519, after a lazily created channel
propagateSelect(t) ==
    /\ pc[t] = "select"
    /\ selectDone(t, DoneOwner(Context[op[t].c]))
    /\ UNCHANGED <<kind, Context, err, cause, done, children, mu, timer, deadline, dcause, how, arg,
                   asked, now>>
    /\ UNCHANGED restVars

\* a registration that does not look at the parent's error
parentNotChecked(p) == FALSE

\* line 524: the parent has already been canceled
parentCanceled(p) == err[p] # Nil

\* a registration that leaves the children set as it is
registerNone(p, c) == children

\* lines 529..532: p.children[child] = struct{}{}
registerChild(p, c) == [children EXCEPT ![p] = @ \cup {c}]

\* lines 521..535
propagateParent(t) ==
    /\ pc[t] = "parent"
    /\ LET p == parentCancelCtx(Context[op[t].c]) IN
       /\ p # NoNode
       /\ mu[p] = Free
       /\ IF parentCanceled(p)
          THEN /\ mu' = [mu EXCEPT ![p] = t]
               /\ Step(t, "unlock", <<Frame(op[t].c, FALSE, err[p], cause[p], "parent")>>, op[t])
               /\ UNCHANGED children
          ELSE /\ children' = registerChild(p, op[t].c)
               /\ Step(t, afterPropagate(op[t].name), <<>>, op[t])
               /\ UNCHANGED mu
    /\ UNCHANGED <<kind, Context, err, cause, done, timer, deadline, dcause, how, arg, asked, now>>
    /\ UNCHANGED restVars

\* line 533, after the child.cancel of line 526
propagateUnlock(t) ==
    /\ pc[t] = "unlock"
    /\ ~Running(t)
    /\ mu' = [mu EXCEPT ![parentCancelCtx(Context[op[t].c])] = Free]
    /\ Step(t, afterPropagate(op[t].name), <<>>, op[t])
    /\ UNCHANGED <<kind, Context, err, cause, done, children, timer, deadline, dcause, how, arg, asked, now>>
    /\ UNCHANGED restVars

\* a derivation that arms the timer without looking at the error
armAlways(c) == [timer EXCEPT ![c] = "armed"]

\* lines 700..705: the timer is armed unless the context is canceled
armTimer(c) == [timer EXCEPT ![c] = IF err[c] = Nil THEN "armed" ELSE @]

\* lines 691..706
deadlineUntil(t) ==
    /\ pc[t] = "Until"
    /\ ~Running(t)
    /\ LET c == op[t].c IN
       IF deadlinePassed(deadline[c])
       THEN /\ Step(t, "ret", <<Frame(c, TRUE, DeadlineExceeded, dcause[c], "timer")>>,
                    [op[t] EXCEPT !.handle = "CancelFuncNoRemove"])
            /\ timer' = timer
       ELSE /\ mu[c] = Free
            /\ timer' = armTimer(c)
            /\ Step(t, "ret", <<>>, op[t])
    /\ UNCHANGED <<kind, Context, err, cause, done, children, mu, deadline, dcause, how, arg, asked, now>>
    /\ UNCHANGED restVars

(* ------------- parents that are no cancelCtx: lines 537..558 ---------- *)
\* A program makes a context of a type of its own around a context it
\* holds; the channel of the new context exists from the start.
NewContext(t, parent, k) ==
    /\ Idle(t)
    /\ HasFresh
    /\ Published(parent)
    /\ k \in CustomKinds
    /\ kind' = [kind EXCEPT ![Fresh] = k]
    /\ Context' = [Context EXCEPT ![Fresh] = parent]
    /\ done' = [done EXCEPT ![Fresh] = "open"]
    /\ handle' = [handle EXCEPT ![Fresh] = k]
    /\ UNCHANGED <<err, cause, children, mu, timer, deadline, dcause, how, arg,
                   asked, now, pc, op, stack, restVars>>

\* the program ends a context of its own: the channel is closed and Err
\* answers Canceled from then on
customCancel(n) ==
    /\ IsCustom(n)
    /\ err[n] = Nil
    /\ err' = [err EXCEPT ![n] = Canceled]
    /\ done' = [done EXCEPT ![n] = "closed"]
    /\ UNCHANGED <<kind, Context, cause, children, mu, timer, deadline, dcause, handle,
                   how, arg, asked, now, pc, op, stack, restVars>>

\* line 537: parent.(afterFuncer)
isAfterFuncer(parent) == kind[parent] = "afterFuncerCtx"

\* lines 537..549: the parent keeps a func that cancels the child, and the
\* child's Context becomes a stopCtx
propagateAfterFuncer(t) ==
    /\ pc[t] = "parent"
    /\ LET c == op[t].c
           parent == Context[c]
       IN
       /\ parentCancelCtx(parent) = NoNode
       /\ isAfterFuncer(parent)
       /\ mu[c] = Free
       /\ funcs' = [funcs EXCEPT ![parent] = @ \cup {c}]
       /\ stopCtx' = [stopCtx EXCEPT ![c] = TRUE]
    /\ Step(t, afterPropagate(op[t].name), <<>>, op[t])
    /\ UNCHANGED <<kind, Context, err, cause, done, children, mu, timer, deadline, dcause,
                   how, arg, asked, now, afterVars, valueVars, goroutines>>

\* the afterFuncer runs the func it was given, in a goroutine of its own,
\* once its context is done: line 541
funcCall(c) ==
    /\ c \in Nodes \ {Background}
    /\ stopCtx[c]
    /\ c \in funcs[Context[c]]
    /\ Closed(done[Context[c]])
    /\ pc[W(c)] = "idle"
    /\ ErrCauseFree(Context[c])
    /\ funcs' = [funcs EXCEPT ![Context[c]] = @ \ {c}]
    /\ Step(W(c), "ret", <<parentFrame(c)>>, [NoOp EXCEPT !.name = "func", !.c = c])
    /\ UNCHANGED <<kind, Context, err, cause, done, children, mu, timer, deadline, dcause,
                   how, arg, asked, now, afterVars, valueVars, goroutines, stopCtx>>

\* lines 551..552: goroutines.Add(1) and the go statement
propagateGoroutine(t) ==
    /\ pc[t] = "parent"
    /\ LET c == op[t].c
           parent == Context[c]
           returns == afterPropagate(op[t].name) = "ret"
       IN
       /\ parentCancelCtx(parent) = NoNode
       /\ ~isAfterFuncer(parent)
       /\ goroutines' = goroutines + 1
       /\ pc' = [pc EXCEPT ![t] = IF returns THEN "idle" ELSE afterPropagate(op[t].name),
                           ![W(c)] = "start"]
       /\ op' = [op EXCEPT ![t] = IF returns THEN NoOp ELSE @,
                           ![W(c)] = [NoOp EXCEPT !.name = "waiter", !.c = c]]
       /\ handle' = IF returns /\ op[t].handle # "none"
                    THEN [handle EXCEPT ![c] = op[t].handle]
                    ELSE handle
    /\ UNCHANGED <<kind, Context, err, cause, done, children, mu, timer, deadline, dcause,
                   how, arg, asked, now, stack, afterVars, valueVars, funcs, stopCtx>>

\* lines 553..557: the goroutine evaluates parent.Done() and child.Done(),
\* which creates the child's channel (lines 481..487), and waits
waiterStart(w) ==
    /\ pc[w] = "start"
    /\ LET c == op[w].c IN
       IF done[c] = "nil"
       THEN /\ mu[c] = Free
            /\ done' = [done EXCEPT ![c] = "open"]
       ELSE done' = done
    /\ Step(w, "wait", <<>>, op[w])
    /\ UNCHANGED <<kind, Context, err, cause, children, mu, timer, deadline, dcause,
                   how, arg, asked, now>>
    /\ UNCHANGED restVars

\* a goroutine that waits for the parent only
parentOnly(c) == FALSE

\* line 556: case <-child.Done()
childDone(c) == Closed(done[c])

\* lines 553..557: the select of the goroutine
waiterSelect(w) ==
    /\ pc[w] = "wait"
    /\ LET c == op[w].c IN
       \/ /\ Closed(done[DoneOwner(Context[c])])
          /\ ErrCauseFree(Context[c])
          /\ Step(w, "ret", <<parentFrame(c)>>, op[w])
       \/ /\ childDone(c)
          /\ Step(w, "ret", <<>>, op[w])
    /\ UNCHANGED <<kind, Context, err, cause, done, children, mu, timer, deadline, dcause,
                   how, arg, asked, now>>
    /\ UNCHANGED restVars

(* --------------------------- specification --------------------------- *)
Deadlines == 0..MaxTime
DeadlineCauses == {Nil} \cup UserCauses

\* Every kind of derivation together.  To keep the state space within
\* reach, Spec derives one context fewer than MaxNodes.
Small == kind'[MaxNodes] = "none"

Next ==
    \/ \E t \in Threads : cancelLock(t)
    \/ \E t \in Threads : cancelChild(t)
    \/ \E t \in Threads : cancelUnlock(t)
    \/ \E t \in Threads : removeChild(t)
    \/ \E t \in Threads : timerStop(t)
    \/ \E t \in Threads, n \in Nodes, cs \in {Nil} \cup UserCauses : callCancel(t, n, cs)
    \/ \E t \in Threads, n \in Nodes : timerFunc(t, n)
    \/ \E t \in Threads, p \in Nodes : WithValue(t, p, "k1", "v1") /\ Small
    \/ \E t \in Threads, p \in Nodes : WithCancel(t, p) /\ Small
    \/ \E t \in Threads, p \in Nodes : WithCancelCause(t, p) /\ Small
    \/ \E t \in Threads, p \in Nodes, d \in Deadlines, cs \in DeadlineCauses :
          WithDeadlineCause(t, p, d, cs) /\ Small
    \/ \E t \in Threads : propagateDone(t)
    \/ \E t \in Threads : propagateSelect(t)
    \/ \E t \in Threads : propagateParent(t)
    \/ \E t \in Threads : propagateUnlock(t)
    \/ \E t \in Threads : deadlineUntil(t)
    \/ Tick

Spec == Init /\ [][Next]_vars

\* The derivations of this package together over MaxNodes contexts:
\* WithValue, WithCancel, AfterFunc and WithDeadline with the latest
\* deadline, with their cancel and stop functions and the timer.
NextAll ==
    \/ \E t \in Goroutines : cancelLock(t)
    \/ \E t \in Goroutines : cancelChild(t)
    \/ \E t \in Goroutines : cancelUnlock(t)
    \/ \E t \in Goroutines : removeChild(t)
    \/ \E t \in Goroutines : timerStop(t)
    \/ \E t \in Goroutines : afterFuncOnce(t)
    \/ \E t \in Threads, n \in Nodes : callCancel(t, n, Nil)
    \/ \E t \in Threads, n \in Nodes : callStop(t, n)
    \/ \E t \in Threads, n \in Nodes : timerFunc(t, n)
    \/ \E t \in Threads, p \in Nodes : WithValue(t, p, "k1", "v1")
    \/ \E t \in Threads, p \in Nodes : WithCancel(t, p)
    \/ \E t \in Threads, p \in Nodes : AfterFunc(t, p)
    \/ \E t \in Threads, p \in Nodes : WithDeadlineCause(t, p, MaxTime, Nil)
    \/ \E t \in Threads : propagateDone(t)
    \/ \E t \in Threads : propagateSelect(t)
    \/ \E t \in Threads : propagateParent(t)
    \/ \E t \in Threads : propagateUnlock(t)
    \/ \E t \in Threads : deadlineUntil(t)
    \/ Tick

SpecAll == Init /\ [][NextAll]_vars

\* WithCancel and WithDeadlineCause (with WithDeadline, WithTimeout and
\* WithTimeoutCause, which call it) over MaxNodes contexts.
NextDeadline ==
    \/ \E t \in Threads : cancelLock(t)
    \/ \E t \in Threads : cancelChild(t)
    \/ \E t \in Threads : cancelUnlock(t)
    \/ \E t \in Threads : removeChild(t)
    \/ \E t \in Threads : timerStop(t)
    \/ \E t \in Threads, n \in Nodes : callCancel(t, n, Nil)
    \/ \E t \in Threads, n \in Nodes : timerFunc(t, n)
    \/ \E t \in Threads, p \in Nodes : WithCancel(t, p)
    \/ \E t \in Threads, p \in Nodes, d \in Deadlines, cs \in DeadlineCauses :
          WithDeadlineCause(t, p, d, cs)
    \/ \E t \in Threads : propagateDone(t)
    \/ \E t \in Threads : propagateSelect(t)
    \/ \E t \in Threads : propagateParent(t)
    \/ \E t \in Threads : propagateUnlock(t)
    \/ \E t \in Threads : deadlineUntil(t)
    \/ Tick

SpecDeadline == Init /\ [][NextDeadline]_vars

\* WithCancel, WithCancelCause and WithValue over MaxNodes contexts.
NextCause ==
    \/ \E t \in Threads : cancelLock(t)
    \/ \E t \in Threads : cancelChild(t)
    \/ \E t \in Threads : cancelUnlock(t)
    \/ \E t \in Threads : removeChild(t)
    \/ \E t \in Threads, n \in Nodes, cs \in {Nil} \cup UserCauses : callCancel(t, n, cs)
    \/ \E t \in Threads, p \in Nodes : WithValue(t, p, "k1", "v1")
    \/ \E t \in Threads, p \in Nodes : WithCancel(t, p)
    \/ \E t \in Threads, p \in Nodes : WithCancelCause(t, p)
    \/ \E t \in Threads : propagateDone(t)
    \/ \E t \in Threads : propagateSelect(t)
    \/ \E t \in Threads : propagateParent(t)
    \/ \E t \in Threads : propagateUnlock(t)

SpecCause == Init /\ [][NextCause]_vars

(* ----------------------------- properties ---------------------------- *)
\* the step in which the call of goroutine t returns
Returns(t) == pc[t] # "idle" /\ pc'[t] = "idle"

\* goroutine t runs the cancel function of p, or the function of p's timer
Cancels(t, p) == op[t].name \in {"cancel", "timerFunc"} /\ op[t].c = p

\* the contexts c is derived from, nearest first excluded: every Context link
RECURSIVE Ancestors(_)
Ancestors(c) ==
    IF c = NoNode \/ Context[c] = NoNode THEN {}
    ELSE {Context[c]} \cup Ancestors(Context[c])

\* <-c.Done() does not block
DoneClosed(c) == DoneOwner(c) # NoNode /\ Closed(done[DoneOwner(c)])

\* WithCancel and AfterFunc over MaxNodes contexts.
NextAfter ==
    \/ \E t \in Threads : cancelLock(t)
    \/ \E t \in Threads : cancelChild(t)
    \/ \E t \in Threads : cancelUnlock(t)
    \/ \E t \in Threads : removeChild(t)
    \/ \E t \in Threads : afterFuncOnce(t)
    \/ \E t \in Threads, n \in Nodes : callCancel(t, n, Nil)
    \/ \E t \in Threads, n \in Nodes : callStop(t, n)
    \/ \E t \in Threads, p \in Nodes : WithCancel(t, p)
    \/ \E t \in Threads, p \in Nodes : AfterFunc(t, p)
    \/ \E t \in Threads : propagateDone(t)
    \/ \E t \in Threads : propagateSelect(t)
    \/ \E t \in Threads : propagateParent(t)
    \/ \E t \in Threads : propagateUnlock(t)

SpecAfter == Init /\ [][NextAfter]_vars

\* WithCancel, WithDeadlineCause and WithoutCancel over MaxNodes contexts.
NextWithout ==
    \/ \E t \in Threads : cancelLock(t)
    \/ \E t \in Threads : cancelChild(t)
    \/ \E t \in Threads : cancelUnlock(t)
    \/ \E t \in Threads : removeChild(t)
    \/ \E t \in Threads : timerStop(t)
    \/ \E t \in Threads, n \in Nodes : callCancel(t, n, Nil)
    \/ \E t \in Threads, n \in Nodes : timerFunc(t, n)
    \/ \E t \in Threads, p \in Nodes : WithCancel(t, p)
    \/ \E t \in Threads, p \in Nodes : WithoutCancel(t, p)
    \/ \E t \in Threads, p \in Nodes, d \in Deadlines : WithDeadlineCause(t, p, d, Nil)
    \/ \E t \in Threads : propagateDone(t)
    \/ \E t \in Threads : propagateSelect(t)
    \/ \E t \in Threads : propagateParent(t)
    \/ \E t \in Threads : propagateUnlock(t)
    \/ \E t \in Threads : deadlineUntil(t)
    \/ Tick

SpecWithout == Init /\ [][NextWithout]_vars

\* WithValue, WithCancel and WithoutCancel over MaxNodes contexts, with the
\* keys and values of Keys and Vals.
NextValue ==
    \/ \E t \in Threads, p \in Nodes, k \in Keys, v \in Vals : WithValue(t, p, k, v)
    \/ \E t \in Threads, p \in Nodes : WithCancel(t, p)
    \/ \E t \in Threads, p \in Nodes : WithoutCancel(t, p)
    \/ \E t \in Threads : propagateDone(t)
    \/ \E t \in Threads : propagateSelect(t)
    \/ \E t \in Threads : propagateParent(t)

SpecValue == Init /\ [][NextValue]_vars

\* C1: when a cancel call on a node returns, the node has no registered
\* child left, and every node that was registered below it (in its children
\* set, or recursively in theirs) when the cancel took effect has its error
\* set and its done channel closed.
C1_CascadeSynchronous ==
    [][\A t \in Threads : \A p \in Nodes :
          (Cancels(t, p) /\ Returns(t))
          => /\ children'[p] = {}
             /\ \A n \in op[t].snap : err'[n] # Nil /\ Closed(done'[n])]_vars

\* a cancel call about to return after a cascade through a child and a
\* grandchild, both canceled
C1_Witness ==
    \E t \in Threads : \E a, b \in Nodes :
        /\ op[t].name = "cancel"
        /\ Len(stack[t]) = 1 /\ Top(t).at = "remove"
        /\ {a, b} \subseteq op[t].snap
        /\ value(Context[a]) = op[t].c /\ value(Context[b]) = a
        /\ \A n \in op[t].snap : err[n] # Nil /\ Closed(done[n])

\* every canceler between d (included) and its ancestor p (excluded) was
\* canceled by its parent's cancellation
RECURSIVE ThroughParent(_, _)
ThroughParent(d, p) ==
    \/ d = p
    \/ d = NoNode
    \/ /\ IsCanceler(d) => how[d] = "parent"
       /\ ThroughParent(Context[d], p)

\* what C2 says of descendant d of p once a cancel call on p has returned,
\* as the specification words it
SameErrorBelow(p) ==
    \A d \in Nodes : (Published(d) /\ p \in Ancestors(d))
                      => DoneClosed(d) /\ Err(d) = Err(p)

\* C2 as written: when a cancel call on a parent returns, every descendant
\* is done with the parent's own terminal error.
C2_Original ==
    [][\A t \in Threads : \A p \in Nodes :
          (Cancels(t, p) /\ Returns(t)) => SameErrorBelow(p)']_vars

\* what holds of the descendants of p instead
CanceledBelow(p) ==
    \A d \in Nodes : (Published(d) /\ p \in Ancestors(d))
                      => /\ DoneClosed(d)
                         /\ Err(d) # Nil
                         /\ ThroughParent(d, p) => Err(d) = Err(p)

\* C2, amended: when a cancel call on a parent returns, every descendant
\* derived through WithCancel, WithCancelCause, WithDeadlineCause or
\* WithValue whose derivation has returned is done with a non-nil error; the
\* error is the parent's terminal error for the descendants the parent's
\* cancellation canceled, while a descendant canceled earlier by its own
\* cancel function or timer keeps the error it had.
C2_DescendantsDone ==
    [][\A t \in Threads : \A p \in Nodes :
          (Cancels(t, p) /\ Returns(t)) => CanceledBelow(p)']_vars

\* a deadline expired on a parent and its cascade gave DeadlineExceeded to
\* a child, the timer's call having returned
C2_Witness ==
    \E p, d \in Nodes :
        /\ how[p] = "timer" /\ how[d] = "parent"
        /\ value(Context[d]) = p
        /\ err[d] = DeadlineExceeded
        /\ \A t \in Threads : pc[t] = "idle"

\* C3: once a node's error is set, no later step changes its error or its
\* cause, and its done channel stays closed.
C3_FirstCancelWins ==
    [][\A n \in Nodes :
          err[n] # Nil => /\ Closed(done[n])
                          /\ err'[n] = err[n]
                          /\ cause'[n] = cause[n]
                          /\ done'[n] = done[n]]_vars

\* the cancel function of a deadline context is running after the timer
\* canceled it, and the error is still DeadlineExceeded
C3_Witness ==
    \E t \in Threads :
        /\ op[t].name = "cancel"
        /\ Len(stack[t]) = 1 /\ Top(t).at \in {"remove", "stop"}
        /\ how[op[t].c] = "timer"
        /\ err[op[t].c] = DeadlineExceeded

\* C4: for every context whose owner's lock is free (no cancel of it in
\* progress), the done channel is closed exactly when Err is non-nil, and
\* Err is non-nil exactly when the cause is non-nil.
C4_DoneErrCause ==
    \A n \in Nodes :
        (kind[n] # "none" /\ (DoneOwner(n) # NoNode => mu[DoneOwner(n)] = Free))
        => /\ DoneClosed(n) <=> Err(n) # Nil
           /\ Err(n) # Nil <=> Cause(n) # Nil

\* one context canceled without a cause next to one that is still active
C4_Witness ==
    \E n, m \in Nodes :
        /\ IsCanceler(n) /\ IsCanceler(m)
        /\ mu[n] = Free /\ mu[m] = Free
        /\ err[n] = Canceled /\ cause[n] = Canceled /\ arg[n] = Nil /\ Closed(done[n])
        /\ err[m] = Nil /\ cause[m] = Nil /\ done[m] = "open"

\* d is derived from a through plain WithCancel and WithValue levels only
RECURSIVE Plain(_, _)
Plain(d, a) ==
    \/ d = a
    \/ /\ d # NoNode
       /\ kind[d] = "valueCtx" \/ (kind[d] = "cancelCtx" /\ handle[d] = "CancelFunc")
       /\ Plain(Context[d], a)

\* the cancel function of a, from WithCancelCause, canceled a with a cause
CanceledWithCause(a) ==
    handle[a] = "CancelCauseFunc" /\ how[a] = "handle" /\ arg[a] \in UserCauses

Given(cs) == IF cs = Nil THEN Canceled ELSE cs

C7_ErrIsSentinel ==
    \A n \in Nodes : err[n] \in {Nil, Canceled, DeadlineExceeded} /\ Err(n) \notin UserCauses

\* one context canceled with a cause and one whose deadline with a cause
\* expired
C7_Witness ==
    \E n, m \in Nodes :
        /\ how[n] = "handle" /\ arg[n] \in UserCauses
        /\ err[n] = Canceled /\ cause[n] = arg[n]
        /\ how[m] = "timer" /\ dcause[m] \in UserCauses
        /\ err[m] = DeadlineExceeded /\ cause[m] = dcause[m]

\* C8 as written: a deadline derivation whose deadline has passed when it
\* is called returns a context that is done with DeadlineExceeded, whatever
\* the parent.
C8_Original ==
    [][\A t \in Threads : \A c \in Nodes :
          (op[t].past /\ op[t].c = c /\ Returns(t))
          => Closed(done'[c]) /\ err'[c] = DeadlineExceeded]_vars

\* C8, amended: a deadline derivation whose deadline has passed when it is
\* called, from a parent without a strictly earlier deadline, returns a
\* context that is done: with DeadlineExceeded, or, when the parent was
\* canceled first, with the parent's error.
C8_PastDeadline ==
    [][\A t \in Threads : \A c \in Nodes :
          (op[t].past /\ op[t].c = c /\ Returns(t) /\ kind[c] = "timerCtx")
          => /\ Closed(done'[c])
             /\ err'[c] # Nil
             /\ err'[c] = DeadlineExceeded \/ err'[c] = Err(Context[c])'
             /\ timer'[c] = "nil"]_vars

\* a context derived with a passed deadline from an active cancelable
\* parent: it is done with DeadlineExceeded, the parent is not
C8_Witness ==
    \E c \in Nodes :
        /\ kind[c] = "timerCtx" /\ handle[c] = "CancelFuncNoRemove"
        /\ value(Context[c]) # NoNode /\ Err(Context[c]) = Nil
        /\ err[c] = DeadlineExceeded /\ Closed(done[c])

\* C9: when a cancel of a deadline context returns, whoever made it (the
\* cancel function, the parent's cascade, the timer), the context has no
\* timer; and a timer is armed only on a context that is not canceled.
C9_TimerStopped ==
    [][/\ \A t \in Threads : \A c \in Nodes :
             (/\ Running(t) /\ Top(t).c = c /\ kind[c] = "timerCtx"
              /\ stack'[t] = Tail(stack[t]))
             => timer'[c] = "nil"
       /\ \A c \in Nodes :
             (timer[c] # "armed" /\ timer'[c] = "armed")
             => err[c] = Nil /\ err'[c] = Nil]_vars

\* a deadline context canceled by its parent before the deadline: its
\* derivation has returned and it has no timer
C9_Witness ==
    \E c \in Nodes :
        /\ kind[c] = "timerCtx" /\ handle[c] = "CancelFunc"
        /\ how[c] = "parent" /\ now < deadline[c]
        /\ timer[c] = "nil"
        /\ \A t \in Threads : pc[t] = "idle"

\* C10: a context derived by a deadline derivation is a plain cancelCtx
\* exactly when the parent's deadline is strictly earlier than the deadline
\* asked for; such a context never has a timer, reports the parent's
\* deadline, and is canceled only by its own cancel function (Canceled) or
\* by its parent's cancellation.
C10_ParentSooner ==
    \A n \in Nodes :
        asked[n] # NoDeadline
        => /\ kind[n] = "cancelCtx"
              <=> (Deadline(Context[n]) # NoDeadline /\ Deadline(Context[n]) < asked[n])
           /\ kind[n] = "cancelCtx"
              => /\ timer[n] = "nil"
                 /\ deadline[n] = NoDeadline
                 /\ Deadline(n) = Deadline(Context[n])
                 /\ how[n] \in {"none", "handle", "parent"}
                 /\ how[n] = "handle" => err[n] = Canceled
                 /\ how[n] = "parent" => err[n] = Err(Context[n])

\* asked for deadline 2 below a parent with deadline 1, the context was
\* canceled when the parent's deadline expired
C10_Witness ==
    \E n \in Nodes :
        /\ asked[n] = 2 /\ kind[n] = "cancelCtx"
        /\ Deadline(n) = 1
        /\ how[n] = "parent" /\ err[n] = DeadlineExceeded
        /\ how[Context[n]] = "timer"

\* n is in the children set of the cancelCtx its parent resolves to
Attached(n) == value(Context[n]) # NoNode /\ n \in children[value(Context[n])]

\* C11 as written: after a cancel function of a node returns, the node is
\* not in the children set of the cancelCtx its parent resolves to.
C11_Original ==
    [][\A t \in Threads : \A n \in Nodes :
          (op[t].name = "cancel" /\ op[t].c = n /\ Returns(t)) => ~Attached(n)']_vars

\* C11, amended: after a call of a node's cancel function that canceled the
\* node returns, and after any call of the cancel function of a deadline
\* node returns, the node is not in the children set of the cancelCtx its
\* parent resolves to, and it never enters a children set again.  (A call
\* that finds a plain cancelable node already canceled returns at once and
\* leaves the detaching to the call that canceled it.)
C11_Detached ==
    [][/\ \A t \in Threads : \A n \in Nodes :
             (/\ op[t].name = "cancel" /\ op[t].c = n /\ Returns(t)
              /\ op[t].won \/ kind[n] = "timerCtx")
             => ~Attached(n)'
       /\ \A n \in Nodes :
             (err[n] # Nil /\ ~Attached(n)) => ~Attached(n)']_vars

\* the cancel function of a registered child is about to return after it
\* detached the child, the parent still being active
C11_Witness ==
    \E t \in Threads : \E n \in Nodes :
        /\ op[t].name = "cancel" /\ op[t].c = n /\ op[t].won
        /\ kind[n] = "timerCtx"
        /\ Len(stack[t]) = 1 /\ Top(t).at = "stop"
        /\ value(Context[n]) # NoNode /\ err[value(Context[n])] = Nil
        /\ ~Attached(n)

\* C12: for every callback registered with AfterFunc: f is started at most
\* once and a stop call returns true at most once, never both (the once is
\* used exactly when one of the two happened); f is started only when the
\* context is done; and once AfterFunc has returned and the cancelCtx the
\* context resolves to is canceled, its cancel complete, f has been started
\* unless a stop call returned true.
C12_AfterFuncOnce ==
    \A a \in Nodes :
        kind[a] = "afterFuncCtx"
        => /\ started[a] <= 1
           /\ stopTrue[a] <= 1
           /\ started[a] + stopTrue[a] = IF once[a] THEN 1 ELSE 0
           /\ started[a] = 1 => Err(Context[a]) # Nil
           /\ (/\ handle[a] = "stop"
               /\ value(Context[a]) # NoNode
               /\ err[value(Context[a])] # Nil
               /\ mu[value(Context[a])] = Free
               /\ stopTrue[a] = 0)
              => started[a] = 1

\* two callbacks on one context: one was stopped in time, the other was
\* started by the cancel of the context
C12_Witness ==
    \E a, b \in Nodes :
        /\ kind[a] = "afterFuncCtx" /\ kind[b] = "afterFuncCtx"
        /\ Context[a] = Context[b]
        /\ stopTrue[a] = 1 /\ started[a] = 0
        /\ started[b] = 1 /\ stopTrue[b] = 0 /\ how[b] = "parent"
        /\ how[Context[b]] = "handle"
        /\ \A t \in Threads : pc[t] = "idle"

\* C13: a context from WithoutCancel has Err nil, no done channel, no
\* deadline and Cause nil in every state, whatever was canceled above it;
\* and a context derived from it is never registered under a context above
\* it, nor canceled by a parent unless that parent lies below the
\* withoutCancelCtx.
C13_WithoutCancel ==
    \A w \in Nodes :
        kind[w] = "withoutCancelCtx"
        => /\ Err(w) = Nil
           /\ DoneOwner(w) = NoNode
           /\ Deadline(w) = NoDeadline
           /\ Cause(w) = Nil
           /\ \A c \in Nodes :
                 w \in Ancestors(c)
                 => /\ \A p \in Ancestors(w) : c \notin Registered(p)
                    /\ how[c] = "parent"
                       => \E q \in Ancestors(c) :
                             IsCanceler(q) /\ w \in Ancestors(q) /\ err[q] # Nil

\* a deadline context has expired; the withoutCancelCtx derived from it and
\* the cancelable context derived from that one are not canceled
C13_Witness ==
    \E w, c \in Nodes :
        /\ kind[w] = "withoutCancelCtx" /\ kind[Context[w]] = "timerCtx"
        /\ err[Context[w]] = DeadlineExceeded
        /\ kind[c] = "cancelCtx" /\ Context[c] = w /\ handle[c] = "CancelFunc"
        /\ err[c] = Nil /\ Err(w) = Nil /\ Deadline(c) = NoDeadline
        /\ \A t \in Threads : pc[t] = "idle"

\* the value-chain nodes with key k among c and the contexts it is derived
\* from
Matching(c, k) ==
    {m \in {c} \cup Ancestors(c) : kind[m] = "valueCtx" /\ key[m] = k}

\* C14: for every context and key, Value returns the value of the nearest
\* value-chain node with that key among the context and the contexts it is
\* derived from (every other such node lies further up), whatever kinds
\* of contexts lie in between, and absent when there is none.
C14_ValueNearest ==
    \A c \in Nodes : \A k \in Keys :
        kind[c] # "none"
        => IF Matching(c, k) = {}
           THEN Value(c, k) = Absent
           ELSE \E m \in Matching(c, k) :
                   /\ \A o \in Matching(c, k) \ {m} : o \in Ancestors(m)
                   /\ Value(c, k) = val[m]

\* a key set twice with different values, looked up from a withoutCancelCtx
\* below both: the lower value is found, and the other key is absent
C14_Witness ==
    \E c, a, b \in Nodes :
        /\ kind[c] = "withoutCancelCtx"
        /\ a \in Ancestors(c) /\ b \in Ancestors(a)
        /\ kind[a] = "valueCtx" /\ kind[b] = "valueCtx"
        /\ key[a] = "k1" /\ key[b] = "k1" /\ val[a] = "v2" /\ val[b] = "v1"
        /\ Value(c, "k1") = "v2"
        /\ Value(c, "k2") = Absent

\* Contexts of other packages as parents: WithCancel from a context with
\* a channel of its own, with and without an AfterFunc method, directly
\* and through a valueCtx.
NextWaiter ==
    \/ \E t \in Goroutines : cancelLock(t)
    \/ \E t \in Goroutines : cancelChild(t)
    \/ \E t \in Goroutines : cancelUnlock(t)
    \/ \E t \in Goroutines : removeChild(t)
    \/ \E t \in Threads, n \in Nodes : callCancel(t, n, Nil)
    \/ \E t \in Threads, p \in Nodes : WithValue(t, p, "k1", "v1")
    \/ \E t \in Threads, p \in Nodes : WithCancel(t, p)
    \/ \E t \in Threads, p \in Nodes, k \in CustomKinds : NewContext(t, p, k)
    \/ \E n \in Nodes : customCancel(n)
    \/ \E t \in Threads : propagateDone(t)
    \/ \E t \in Threads : propagateSelect(t)
    \/ \E t \in Threads : propagateParent(t)
    \/ \E t \in Threads : propagateUnlock(t)
    \/ \E t \in Threads : propagateAfterFuncer(t)
    \/ \E t \in Threads : propagateGoroutine(t)
    \/ \E c \in Nodes : funcCall(c)
    \/ \E w \in Waiters : waiterStart(w)
    \/ \E w \in Waiters : waiterSelect(w)

SpecWaiter == Init /\ [][NextWaiter]_vars

\* The goroutine of lines 552..557 with causes: WithCancelCause from a
\* context with a channel of its own, around the background context or
\* around a context that is canceled with a cause.  Every call of a
\* cancel function gives the cause "cause1".
NextFallback ==
    \/ \E t \in Goroutines : cancelLock(t)
    \/ \E t \in Goroutines : cancelChild(t)
    \/ \E t \in Goroutines : cancelUnlock(t)
    \/ \E t \in Goroutines : removeChild(t)
    \/ \E t \in Threads, n \in Nodes : callCancel(t, n, "cause1")
    \/ \E t \in Threads, p \in Nodes : WithCancelCause(t, p)
    \/ \E t \in Threads, p \in Nodes : NewContext(t, p, "doneCtx")
    \/ \E n \in Nodes : customCancel(n)
    \/ \E t \in Threads : propagateDone(t)
    \/ \E t \in Threads : propagateSelect(t)
    \/ \E t \in Threads : propagateParent(t)
    \/ \E t \in Threads : propagateUnlock(t)
    \/ \E t \in Threads : propagateGoroutine(t)
    \/ \E w \in Waiters : waiterStart(w)
    \/ \E w \in Waiters : waiterSelect(w)

\* what goroutine t can do next inside the package
Runs(t) ==
    \/ cancelLock(t) \/ cancelChild(t) \/ cancelUnlock(t) \/ removeChild(t)
    \/ propagateDone(t) \/ propagateSelect(t) \/ propagateParent(t)
    \/ propagateUnlock(t) \/ propagateGoroutine(t)

\* what the goroutine of lines 552..557 can do next
Waits(w) ==
    \/ waiterStart(w) \/ waiterSelect(w)
    \/ cancelLock(w) \/ cancelChild(w) \/ cancelUnlock(w) \/ removeChild(w)

\* The scheduler runs every goroutine that can take a step, and a mutex
\* that is released is handed to a goroutine that waits for it: a call
\* into the package that has begun goes on, and so does the goroutine
\* propagateCancel started.  Nothing obliges the program to begin a call.
SpecFallback ==
    /\ Init /\ [][NextFallback]_vars
    /\ \A t \in Threads : WF_vars(Runs(t))
    /\ \A w \in Waiters : WF_vars(Waits(w))

\* WithCancel and WithDeadline with their cancel functions and the timer on
\* a shared tree, under the scheduler: a call that has begun goes on
\* whenever it can take a step (a released mutex is handed to a goroutine
\* that waits for it).  Nothing obliges the program to begin a call or
\* the clock to advance.
NextTree ==
    \/ \E t \in Threads : cancelLock(t)
    \/ \E t \in Threads : cancelChild(t)
    \/ \E t \in Threads : cancelUnlock(t)
    \/ \E t \in Threads : removeChild(t)
    \/ \E t \in Threads : timerStop(t)
    \/ \E t \in Threads, n \in Nodes : callCancel(t, n, Nil)
    \/ \E t \in Threads, n \in Nodes : timerFunc(t, n)
    \/ \E t \in Threads, p \in Nodes : WithCancel(t, p)
    \/ \E t \in Threads, p \in Nodes : WithDeadlineCause(t, p, MaxTime, Nil)
    \/ \E t \in Threads : propagateDone(t)
    \/ \E t \in Threads : propagateSelect(t)
    \/ \E t \in Threads : propagateParent(t)
    \/ \E t \in Threads : propagateUnlock(t)
    \/ \E t \in Threads : deadlineUntil(t)
    \/ Tick

\* what goroutine t can do next inside a call
RunsTree(t) == Runs(t) \/ timerStop(t) \/ deadlineUntil(t)

SpecTree ==
    /\ Init /\ [][NextTree]_vars
    /\ \A t \in Threads : WF_vars(RunsTree(t))

\* goroutine t runs a derivation of a cancelable context
Derives(t) == op[t].name \in {"WithCancel", "WithCancelCause", "WithDeadlineCause"}

\* C15: for a parent that resolves to a cancelCtx, however a derivation and
\* a cancel of the parent interleave: a child is put in a children set only
\* while the owner of the set is not canceled; when the derivation returns
\* the child is in the parent's children set or is canceled, and a child
\* canceled by the derivation has the parent's error and cause; and once
\* the derivation has returned and the parent's cancel is complete, the
\* child is canceled.
C15_DeriveOrCancel ==
    [][/\ \A p, c \in Nodes :
             (c \notin children[p] /\ c \in children'[p])
             => err[p] = Nil /\ err'[p] = Nil
       /\ \A t \in Threads : \A c \in Nodes :
             (Derives(t) /\ op[t].c = c /\ Returns(t) /\ value(Context[c]) # NoNode)
             => /\ Attached(c)' \/ err'[c] # Nil
                /\ how'[c] = "parent"
                   => /\ err'[c] = err'[value(Context[c])]
                      /\ cause'[c] = cause'[value(Context[c])]
       /\ \A c \in Nodes :
             (/\ Published(c)' /\ IsCanceler(c)
              /\ value(Context[c]) # NoNode
              /\ err'[value(Context[c])] # Nil
              /\ mu'[value(Context[c])] = Free)
             => err'[c] # Nil]_vars

\* a derivation saw the parent's done channel open, the parent was then
\* canceled with a cause, and the derivation, holding the parent's lock,
\* has canceled the child with the parent's error and cause
C15_Witness ==
    \E t \in Threads :
        /\ Derives(t) /\ pc[t] = "unlock" /\ ~Running(t)
        /\ mu[value(Context[op[t].c])] = t
        /\ cause[value(Context[op[t].c])] = "cause1"
        /\ err[op[t].c] = Canceled /\ cause[op[t].c] = "cause1"
        /\ ~Attached(op[t].c)

\* some goroutine is inside a call of c.cancel
InCancel(c) ==
    \E t \in Goroutines : \E i \in 1..Len(stack[t]) : stack[t][i].c = c

\* a canceler whose derivation has returned and whose parent resolves to a
\* cancelCtx
Registrable(c) ==
    /\ c \in Nodes /\ IsCanceler(c) /\ Published(c)
    /\ value(Context[c]) # NoNode

\* C16 as stated: in every reachable state a node is in its parent's
\* children set if and only if it has not been canceled (a node is
\* detached only by its own cancel).
C16_Original ==
    \A c \in Nodes : Registrable(c) => (Attached(c) <=> err[c] = Nil)

\* C16: a node that has not been canceled is in its parent's children
\* set; a canceled node is in its parent's children set only while a call
\* of its own cancel or of its parent's cancel is in progress.  So in every
\* state where neither call is in progress the node is in the set if and
\* only if it has not been canceled.
C16_Membership ==
    \A c \in Nodes :
        Registrable(c)
        => /\ err[c] = Nil => Attached(c)
           /\ (Attached(c) /\ err[c] # Nil)
              => InCancel(c) \/ InCancel(value(Context[c]))

\* a canceled node is still in the children set of its parent while the
\* call that canceled it has not reached removeChild
C16_Witness ==
    \E c \in Nodes :
        /\ Registrable(c) /\ Attached(c) /\ err[c] # Nil
        /\ InCancel(c) /\ ~InCancel(value(Context[c]))
        /\ err[value(Context[c])] = Nil

\* the runtime starts the function of c's timer in this step
Fires(c) == timer[c] = "armed" /\ timer'[c] = "fired"

Held(t) == {n \in Nodes : mu[n] = t}

\* C18 as stated: no goroutine holds the mutex of more than one node.
C18_Original ==
    \A t \in Threads : Cardinality(Held(t)) <= 1

\* C18: a goroutine holds the mutex of a node while it cancels the node's
\* children, so it can hold several, but only along one chain of
\* ancestors and taken from the ancestor down: it takes a mutex, in
\* cancelCtx.cancel and in the timer stop of timerCtx.cancel, only
\* while every mutex it holds belongs to an ancestor of that node, and it
\* holds none when it enters removeChild, which takes the parent's mutex,
\* and none outside a cancel cascade and the derivation's cancel of a
\* child of a canceled parent.
C18_LockOrder ==
    [][/\ \A t \in Threads : \A n \in Nodes :
             (mu[n] # t /\ mu'[n] = t) => Held(t) \subseteq Ancestors(n)
       /\ \A t \in Threads :
             (Running(t) /\ Top(t).at \in {"lock", "stop"})'
             => (Held(t) \subseteq Ancestors(Top(t).c))'
       /\ \A t \in Threads :
             (Running(t) /\ Top(t).at = "remove")' => Held(t)' = {}
       /\ \A t \in Threads :
             (~Running(t) /\ pc[t] # "unlock")' => Held(t)' = {}]_vars

\* a cascade three contexts deep: the goroutine holds the mutex of a
\* context and of its child while it cancels the grandchild
C18_Witness ==
    \E t \in Threads : \E a, b \in Nodes :
        /\ a \in Ancestors(b) /\ mu[a] = t /\ mu[b] = t
        /\ Running(t) /\ Top(t).c \notin {a, b} /\ b \in Ancestors(Top(t).c)

\* the context a chain of valueCtx starts from
RECURSIVE Bare(_)
Bare(c) == IF c \in Nodes /\ kind[c] = "valueCtx" THEN Bare(Context[c]) ELSE c

\* the parent has a channel of its own, is and wraps no cancelCtx the
\* channel belongs to, and has no AfterFunc method
NeedsWaiter(parent) == IsCustom(Bare(parent)) /\ kind[parent] # "afterFuncerCtx"

\* goroutine t is between line 503 and the end of propagateCancel
InPropagate(t) == pc[t] \in {"Done", "select", "parent"}

\* the goroutine of lines 552..557 is started for child c in this step
Spawned(c) == pc[W(c)] = "idle" /\ pc'[W(c)] = "start"

\* C19: propagateCancel starts a goroutine, and adds exactly one to the
\* counter goroutines, if and only if its select found the parent's
\* channel not nil and not closed, the parent is no cancelCtx and no chain
\* of valueCtx over one, and the parent has no AfterFunc method.  No
\* goroutine is started in a derivation from the background context, from a
\* parent that is already done, or from a cancelCtx through valueCtx
\* nodes; the counter changes in no other step.
C19_WaiterIff ==
    [][/\ \A t \in Threads :
             (Derives(t) /\ InPropagate(t) /\ ~InPropagate(t)')
             => (Spawned(op[t].c)
                 <=> (pc[t] = "parent" /\ NeedsWaiter(Context[op[t].c])))
       /\ \A t \in Threads :
             (Derives(t) /\ pc[t] \in {"Done", "select"} /\ pc'[t] # pc[t])
             => LET p == DoneOwner(Context[op[t].c]) IN
                IF pc'[t] \in {"select", "parent"}
                THEN p # NoNode /\ ~Closed(done[p])
                ELSE p = NoNode \/ Closed(done[p])
       /\ \A c \in Nodes \ {Background} :
             Spawned(c) => \E t \in Threads : Derives(t) /\ op[t].c = c /\ pc[t] = "parent"
       /\ goroutines' =
             goroutines + Cardinality({c \in Nodes \ {Background} : Spawned(c)})]_vars

\* a goroutine has been started for a child of a context with a channel
\* of its own that wraps a cancelCtx, or for a child derived through a
\* valueCtx from a context with a channel of its own
C19_Witness ==
    \E c \in Nodes \ {Background} :
        /\ pc[W(c)] = "start" /\ goroutines >= 1
        /\ \/ kind[Context[c]] = "doneCtx" /\ value(Context[c]) # NoNode
           \/ kind[Context[c]] = "valueCtx" /\ IsCustom(Context[Context[c]])

\* the goroutine started for child c has not ended
WaiterLive(c) == op[W(c)].name = "waiter"

\* the channel of c's parent is closed
ParentDone(c) ==
    DoneOwner(Context[c]) # NoNode /\ Closed(done[DoneOwner(Context[c])])

\* the cause of a context: the cause recorded by the cancelCtx its Value
\* finds when that one has a cause, and its own error otherwise
RecordedCause(p) ==
    IF value(p) # NoNode /\ cause[value(p)] # Nil THEN cause[value(p)] ELSE Err(p)

\* C20: with every goroutine that can run scheduled, the goroutine that
\* propagateCancel started for a child ends once the channel of the parent
\* or of the child is closed; canceling the child through its cancel
\* function is enough.  When the goroutine wakes on the parent's channel
\* it calls the child's cancel with the parent's error and cause as they
\* are then, that call sets the child's error and cause unless the child
\* is canceled already, and the child is canceled when the goroutine ends.
\* A goroutine that ends without canceling found the child's channel
\* closed.
C20_WaiterEnds ==
    /\ \A c \in Nodes \ {Background} :
          (WaiterLive(c) /\ (ParentDone(c) \/ Closed(done[c]))) ~> ~WaiterLive(c)
    /\ [][\A c \in Nodes \ {Background} :
             /\ (WaiterLive(c) /\ pc[W(c)] = "wait" /\ Running(W(c))')
                => /\ ParentDone(c)
                   /\ Top(W(c))'.err = Err(Context[c])
                   /\ Top(W(c))'.err # Nil
                   /\ RecordedCause(Context[c])
                        = IF Top(W(c))'.cause = Nil THEN Top(W(c))'.err
                          ELSE Top(W(c))'.cause
             /\ (/\ WaiterLive(c) /\ Running(W(c)) /\ stack'[W(c)] # stack[W(c)]
                 /\ err[c] = Nil /\ err'[c] # Nil)
                => /\ err'[c] = Top(W(c)).err
                   /\ cause'[c] = IF Top(W(c)).cause = Nil THEN Top(W(c)).err
                                  ELSE Top(W(c)).cause
             /\ (WaiterLive(c) /\ ~WaiterLive(c)')
                => /\ err'[c] # Nil
                   /\ ~Running(W(c)) => Closed(done[c])]_vars

\* the only goroutine ever started has ended because the child was
\* canceled through its cancel function: the parent is not done
C20_Witness ==
    \E c \in Nodes \ {Background} :
        /\ IsCanceler(c) /\ IsCustom(Context[c]) /\ Published(c)
        /\ goroutines = 1
        /\ Cardinality({n \in Nodes : IsCanceler(n) /\ IsCustom(Context[n])}) = 1
        /\ ~WaiterLive(c) /\ how[c] = "handle" /\ arg[c] = "cause1"
        /\ err[Context[c]] = Nil

\* C21: a timerCtx first canceled by its timer (or by the derivation that
\* found the deadline passed) has the error DeadlineExceeded and as cause
\* the cause WithDeadlineCause was given, DeadlineExceeded when that was
\* nil; a timerCtx first canceled by the cancel function WithDeadlineCause
\* returned has the error Canceled and the cause Canceled, whatever cause
\* the derivation was given.
C21_DeadlineCause ==
    \A n \in Nodes :
        (kind[n] = "timerCtx" /\ err[n] # Nil)
        => /\ how[n] = "timer"
              => /\ err[n] = DeadlineExceeded
                 /\ cause[n] = IF dcause[n] = Nil THEN DeadlineExceeded ELSE dcause[n]
           /\ how[n] = "handle"
              => err[n] = Canceled /\ cause[n] = Canceled
           /\ how[n] \in {"timer", "handle", "parent"}

\* a timerCtx derived with a cause, whose timer was armed, has been
\* canceled by its cancel function before the timer fired
C21_Witness ==
    \E n \in Nodes :
        /\ kind[n] = "timerCtx" /\ dcause[n] = "cause1" /\ asked[n] > 0
        /\ how[n] = "handle" /\ err[n] = Canceled /\ cause[n] = Canceled
        /\ timer[n] = "nil" /\ ~InCancel(n)

\* C22: Cause(c) is the cause recorded by the cancelCtx that
\* c.Value(&cancelCtxKey) finds when that one has a cause, and the error
\* of c otherwise; so Cause(c) is not nil for a context whose channel is
\* closed, a context with a channel of its own around a cancelCtx
\* included, and Cause(c) is nil only when c is not canceled.
C22_CauseOf ==
    \A c \in Nodes :
        kind[c] # "none"
        => /\ Cause(c) = RecordedCause(c)
           /\ DoneClosed(c) => Cause(c) # Nil
           /\ Cause(c) = Nil => Err(c) = Nil

\* a context with a channel of its own is done, the cancelCtx it is made
\* around is not canceled, and Cause answers nil for it
C22_NilCause ==
    \E c \in Nodes :
        /\ IsCustom(c) /\ Closed(done[c]) /\ Err(c) = Canceled
        /\ value(c) # NoNode /\ err[value(c)] = Nil
        /\ Cause(c) = Nil

\* C23: every call of cancel that this package makes, from a cancel
\* function, a stop function, a timer, a cascade or propagateCancel, has
\* an error that is not nil, so the panic of lines 583..585 is not reached.
C23_CancelErrNotNil ==
    \A t \in Goroutines : \A i \in 1..Len(stack[t]) : stack[t][i].err # Nil

\* propagateCancel has found the parent's channel closed and calls the
\* child's cancel with the parent's error
C23_Witness ==
    \E t \in Threads :
        /\ op[t].name \in {"WithCancel", "WithCancelCause", "WithDeadlineCause", "AfterFunc"}
        /\ Running(t) /\ pc[t] # "unlock"
        /\ Top(t).via = "parent" /\ Top(t).at = "lock" /\ Top(t).c = op[t].c
        /\ kind[Context[op[t].c]] = "valueCtx"
        /\ Top(t).err = Err(Context[op[t].c]) /\ Top(t).err # Nil

\* the contexts whose mutex the next step of goroutine t takes
Wants(t) ==
    IF Running(t)
    THEN LET c == Top(t).c IN
         IF Top(t).at \in {"lock", "stop"} THEN {c}
         ELSE IF Top(t).at = "remove" /\ ~stopCtx[c]
         THEN {parentCancelCtx(Context[c])} \ {NoNode}
         ELSE {}
    ELSE LET c == op[t].c
             parent == IF c = NoNode THEN NoNode ELSE Context[c]
         IN
         IF pc[t] \in {"Done", "select"}
         THEN IF DoneOwner(parent) = NoNode THEN {}
              ELSE IF done[DoneOwner(parent)] = "nil" THEN {DoneOwner(parent)}
              ELSE IF Closed(done[DoneOwner(parent)])
              THEN {DoneOwner(parent), value(parent)} \ {NoNode}
              ELSE {}
         ELSE IF pc[t] = "parent" THEN {parentCancelCtx(parent)} \ {NoNode}
         ELSE IF pc[t] = "Until" /\ ~deadlinePassed(deadline[c]) THEN {c}
         ELSE {}

\* goroutine t waits for a mutex that goroutine u holds
WaitsFor(t, u) == \E n \in Wants(t) : mu[n] = u

\* C24: a goroutine inside a call that cannot take a step waits for a
\* mutex another goroutine holds; no goroutine waits for a mutex it holds
\* itself and no two goroutines wait for each other; a goroutine that is
\* about to take the mutex of a context holds the mutex neither of that
\* context nor of a context registered below it; and, with every goroutine
\* that can take a step scheduled, every call returns.
C24_DeadlockFree ==
    /\ [](\A t \in Threads :
            /\ (pc[t] # "idle" /\ ~ENABLED RunsTree(t))
               => \E u \in Threads \ {t} : WaitsFor(t, u)
            /\ ~WaitsFor(t, t)
            /\ \A u \in Threads \ {t} : ~(WaitsFor(t, u) /\ WaitsFor(u, t))
            /\ \A p \in Wants(t) : Held(t) \cap ({p} \cup Registered(p)) = {})
    /\ \A t \in Threads : (pc[t] # "idle") ~> (pc[t] = "idle")

\* one goroutine is in the cascade of a context and holds its mutex while
\* the other, in removeChild for a child of that context, waits for it
C24_Witness ==
    \E t, u \in Threads :
        /\ t # u /\ WaitsFor(t, u)
        /\ Running(t) /\ Top(t).at = "remove"
        /\ Running(u) /\ Top(t).c \in children[parentCancelCtx(Context[Top(t).c])]

\* the context on which the outermost cancel call of goroutine t was made
Outermost(t) == stack[t][Len(stack[t])].c

\* C25: a step of a cancel call on a context leaves the error, the cause
\* and the channel of every other context as they are, and the children of
\* every other context too, except that it may delete the context from the
\* children of its parent; and a context gets its error only in a cancel
\* call made on it or on one of its ancestors.
C25_Downward ==
    [][/\ \A t \in Goroutines :
            (Running(t) /\ stack'[t] # stack[t]) =>
                LET c == Top(t).c IN
                \A n \in Nodes \ {c} :
                    /\ err'[n] = err[n]
                    /\ cause'[n] = cause[n]
                    /\ done'[n] = done[n]
                    /\ \/ children'[n] = children[n]
                       \/ /\ n = parentCancelCtx(Context[c])
                          /\ children'[n] = children[n] \ {c}
       /\ \A n \in Nodes :
            (err'[n] # err[n] \/ cause'[n] # cause[n]
                \/ (Closed(done'[n]) /\ ~Closed(done[n]))) =>
                \E t \in Goroutines :
                    /\ Running(t) /\ Top(t).c = n
                    /\ Outermost(t) \in {n} \cup Ancestors(n)
      ]_vars

\* a context canceled by its cancel function is gone from the children of
\* its parent, which keeps another child; parent and sibling are not
\* canceled
C25_Witness ==
    \E c, sib \in Nodes :
        LET p == parentCancelCtx(Context[c]) IN
        /\ c # sib /\ p # NoNode
        /\ err[c] # Nil /\ how[c] = "handle" /\ ~InCancel(c)
        /\ c \notin children[p] /\ sib \in children[p]
        /\ err[p] = Nil /\ cause[p] = Nil /\ ~Closed(done[p])
        /\ err[sib] = Nil /\ cause[sib] = Nil /\ ~Closed(done[sib])
====
